---- MODULE Spec2Model ----
(***************************************************************************)
(* gin-jwks: the configuration builder (NewConfigBuilder, the new-key and  *)
(* import-key facets, Build) and the Jkws gin handler, as a state machine. *)
(*                                                                         *)
(* One ConfigBuilder is modelled.  Its two facets embed a copy of the      *)
(* ConfigBuilder struct, whose only field is the pointer `config`, so      *)
(* every facet and the builder itself work on the same Config object: cfg. *)
(* Build returns that same pointer.  A jwk.Key object is written only      *)
(* before Build stores it, so a pointer to one is modelled by the object   *)
(* itself: cfg.key, and the copy of it a handler's closure holds.          *)
(***************************************************************************)
EXTENDS Integers, Sequences, FiniteSets, Bags, TLC

VARIABLES
    cfg,        \* the Config the builder points to: key, newPkOpts, importPkOpts
    last,       \* the last builder call, and (config, err) when it was Build
    handlers,   \* the closures Jkws returned: each holds its own copy of a Config
    reqs        \* the requests served (a bag): closure, position, locals, response

vars == <<cfg, last, handlers, reqs>>

\* ------------------------------------------------------------------ bounds

MaxHandlers == 1
MaxRequests == 2

\* ------------------------------------------------------------ input domains

\* nil, by type: a nil *Config, an unset kid or use, a nil error (errors are the
\* sequence of their message layers, outermost first), a nil options pointer, a
\* nil jwk.Key, a nil interface{} value, no response written yet
Nil == "nil"
NilErr == <<>>
NilOpts == [nil |-> TRUE]
NilKey == [kind |-> Nil]
NilValue == [type |-> Nil]
NoResponse == [status |-> 0]

\* key ids handed to WithKeyId ("" is also the zero value of keyId)
KeyIds == {"", "my-id"}

\* key lengths handed to WithKeyLength (0 is also the zero value of bits).
\* TLC's integers are 32 bits wide, so the lengths are scaled down:
\* rsa.GenerateKey refuses 0 and yields a 16-bit modulus for 16.
KeyLengths == {0, 16}

\* the file system importPrivateKey reads: path -> content.  A path outside
\* DOMAIN does not exist.  The RSA key of the two .pem files has the primes 6151
\* and 8191 and the public exponent 17.
FileSystem ==
    [p \in {"notes.txt", "ec.pem", "public.pem", "private.pem"} |->
        CASE p = "notes.txt"   -> [pem |-> Nil]
          [] p = "ec.pem"      -> [pem |-> "EC PRIVATE KEY"]
          [] p = "public.pem"  -> [pem |-> "RSA PUBLIC KEY", n |-> 6151 * 8191, e |-> 17]
          [] p = "private.pem" -> [pem |-> "RSA PRIVATE KEY", n |-> 6151 * 8191, e |-> 17]]

\* paths handed to WithPath ("" is the zero value of privateKeyPemPath)
Paths == {"missing.pem"} \cup DOMAIN FileSystem

\* ------------------------------------------------------------------ strings

KeyUsageAsSignature == "sig"

\* --------------------------------------------------------- bytes and base64

RECURSIVE BitLen(_)
\* big.Int.BitLen
BitLen(n) == IF n = 0 THEN 0 ELSE 1 + BitLen(n \div 2)

RECURSIVE BigEndianBytes(_)
\* big.Int.Bytes: the big-endian bytes of n, no leading zero byte
BigEndianBytes(n) ==
    IF n = 0 THEN <<>> ELSE Append(BigEndianBytes(n \div 256), n % 256)

RECURSIVE FromBigEndian(_)
\* big.Int.SetBytes
FromBigEndian(bs) ==
    IF bs = <<>> THEN 0
    ELSE 256 * FromBigEndian(SubSeq(bs, 1, Len(bs) - 1)) + bs[Len(bs)]

\* base64's URL alphabet (encodeURL)
Alphabet ==
    << "A","B","C","D","E","F","G","H","I","J","K","L","M","N","O","P",
       "Q","R","S","T","U","V","W","X","Y","Z","a","b","c","d","e","f",
       "g","h","i","j","k","l","m","n","o","p","q","r","s","t","u","v",
       "w","x","y","z","0","1","2","3","4","5","6","7","8","9","-","_" >>

Char(sextet) == Alphabet[sextet + 1]

RECURSIVE EncodePadded(_)
\* base64.URLEncoding.EncodeToString: the same with '=' padding to 4 characters
EncodePadded(src) ==
    IF Len(src) = 0 THEN <<>>
    ELSE IF Len(src) = 1 THEN
        << Char(src[1] \div 4), Char((src[1] % 4) * 16), "=", "=" >>
    ELSE IF Len(src) = 2 THEN
        << Char(src[1] \div 4),
           Char((src[1] % 4) * 16 + src[2] \div 16),
           Char((src[2] % 16) * 4), "=" >>
    ELSE
        << Char(src[1] \div 4),
           Char((src[1] % 4) * 16 + src[2] \div 16),
           Char((src[2] % 16) * 4 + src[3] \div 64),
           Char(src[3] % 64) >> \o EncodePadded(SubSeq(src, 4, Len(src)))

RECURSIVE EncodeToString(_)
\* base64.RawURLEncoding.EncodeToString: 3 bytes -> 4 characters, a remainder of
\* 1 byte -> 2 characters, of 2 bytes -> 3 characters, no padding
EncodeToString(src) ==
    IF Len(src) = 0 THEN <<>>
    ELSE IF Len(src) = 1 THEN
        << Char(src[1] \div 4), Char((src[1] % 4) * 16) >>
    ELSE IF Len(src) = 2 THEN
        << Char(src[1] \div 4),
           Char((src[1] % 4) * 16 + src[2] \div 16),
           Char((src[2] % 16) * 4) >>
    ELSE
        << Char(src[1] \div 4),
           Char((src[1] % 4) * 16 + src[2] \div 16),
           Char((src[2] % 16) * 4 + src[3] \div 64),
           Char(src[3] % 64) >> \o EncodeToString(SubSeq(src, 4, Len(src)))

\* ------------------------------------------------- the key library (jwx, rsa)

\* the public exponent rsa.GenerateKey always uses
PublicExponent == 65537

\* moduli rsa.GenerateKey can return, by length: products of two distinct primes
\* of bits/2 bits each whose two top bits are set
SampleModuli == {193 * 197, 241 * 251}

GeneratedModuli(bits) == {n \in SampleModuli : BitLen(n) = bits}

\* a jwk.Key object: its dynamic type, the n and e bytes, the kid and use fields
NewKey(kind, n, e) ==
    [kind |-> kind, n |-> BigEndianBytes(n), e |-> BigEndianBytes(e),
     kid |-> Nil, use |-> Nil]

\* key.Set(name, value): kid takes any string; use takes "sig" or "enc"
Set(key, name, value) ==
    IF name = "kid" THEN [key |-> [key EXCEPT !.kid = value], err |-> NilErr]
    ELSE IF name = "use" /\ value \in {"sig", "enc"}
         THEN [key |-> [key EXCEPT !.use = value], err |-> NilErr]
    ELSE [key |-> key, err |-> <<"invalid value">>]

\* mutant: the assertion is on the key type RSA, not on the private key
IsAnyRSAKey(key) == key.kind \in {"RSAPrivateKey", "RSAPublicKey"}

\* key.(jwk.RSAPrivateKey)
IsRSAPrivateKey(key) == key.kind = "RSAPrivateKey"

\* key.PublicKey(): the public half, carrying the same kid and use
PublicKey(key) ==
    IF key.kind \in {"RSAPrivateKey", "RSAPublicKey"}
    THEN [key |-> [key EXCEPT !.kind = "RSAPublicKey"], err |-> NilErr]
    ELSE [key |-> [key EXCEPT !.kind = "ECDSAPublicKey"], err |-> NilErr]

\* pubKey.KeyType().String()
KeyType(key) == IF key.kind \in {"RSAPrivateKey", "RSAPublicKey"} THEN "RSA" ELSE "EC"

\* ioutil.ReadFile
ReadFile(path) ==
    IF path \in DOMAIN FileSystem
    THEN [data |-> FileSystem[path], err |-> NilErr]
    ELSE [data |-> [pem |-> Nil], err |-> <<"no such file or directory">>]

\* jwk.ParseKey(data, jwk.WithPEM(true))
ParseKey(data) ==
    IF data.pem = "RSA PRIVATE KEY"
    THEN [key |-> NewKey("RSAPrivateKey", data.n, data.e), err |-> NilErr]
    ELSE IF data.pem = "RSA PUBLIC KEY"
    THEN [key |-> NewKey("RSAPublicKey", data.n, data.e), err |-> NilErr]
    ELSE IF data.pem = "EC PRIVATE KEY"
    THEN [key |-> NewKey("ECDSAPrivateKey", 0, 0), err |-> NilErr]
    ELSE [key |-> NilKey, err |-> <<"failed to decode PEM data">>]

\* ----------------------------------------------------------- the builder

Wrap(msg, err) == <<msg>> \o err

\* generatePrivateKey: rsa.GenerateKey on opts.bits, then jwk.FromRaw.  rnd is
\* what rand.Reader yields: it picks the modulus among those of that length.
generatePrivateKey(opts, rnd) ==
    IF GeneratedModuli(opts.bits) = {}
    THEN [key |-> NilKey,
          err |-> Wrap("failed to generate new RSA private key", <<"too few primes">>)]
    ELSE LET n == CHOOSE m \in GeneratedModuli(opts.bits) :
                     \/ rnd = 0 /\ \A o \in GeneratedModuli(opts.bits) : m <= o
                     \/ rnd # 0 /\ \A o \in GeneratedModuli(opts.bits) : m >= o
         IN [key |-> NewKey("RSAPrivateKey", n, PublicExponent), err |-> NilErr]

\* mutant: the error of ReadFile is dropped and the (empty) data parsed
importPrivateKeyUncheckedRead(opts) ==
    LET parsed == ParseKey(ReadFile(opts.privateKeyPemPath).data) IN
    IF parsed.err # NilErr
    THEN [key |-> NilKey, err |-> Wrap("cannot parse private key", parsed.err)]
    ELSE [key |-> parsed.key, err |-> NilErr]

\* importPrivateKey: read the file, then parse it as PEM
importPrivateKey(opts) ==
    LET file == ReadFile(opts.privateKeyPemPath) IN
    IF file.err # NilErr
    THEN [key |-> NilKey, err |-> Wrap("cannot read private key", file.err)]
    ELSE LET parsed == ParseKey(file.data) IN
         IF parsed.err # NilErr
         THEN [key |-> NilKey, err |-> Wrap("cannot parse private key", parsed.err)]
         ELSE [key |-> parsed.key, err |-> NilErr]

\* NewConfigBuilder: a builder pointing to a fresh, empty Config
NewConfigBuilder == [key |-> NilKey, newPkOpts |-> NilOpts, importPkOpts |-> NilOpts]

\* initiateNewOptsIfNil: the new-key options, created zero-valued when nil
initiateNewOptsIfNil(c) ==
    IF c.newPkOpts = NilOpts THEN [c EXCEPT !.newPkOpts = [keyId |-> "", bits |-> 0]] ELSE c

\* initiateImportOptsIfNil: the import options, created zero-valued when nil
initiateImportOptsIfNil(c) ==
    IF c.importPkOpts = NilOpts
    THEN [c EXCEPT !.importPkOpts = [keyId |-> "", privateKeyPemPath |-> ""]]
    ELSE c

\* mutant: the check of both facets is missing
BothNeverSelected(c) == FALSE

\* Build, first check: both facets have options

BothSelected(c) == c.newPkOpts # NilOpts /\ c.importPkOpts # NilOpts

\* Build, the two source blocks: generate when newPkOpts is set, then import
\* when importPkOpts is set; key and opts stay nil when neither is
ResolveKey(c, rnd) ==
    LET gen == IF c.newPkOpts # NilOpts
               THEN generatePrivateKey(c.newPkOpts, rnd)
               ELSE [key |-> NilKey, err |-> NilErr]
    IN  IF gen.err # NilErr
        THEN [key |-> NilKey, opts |-> NilOpts,
              err |-> Wrap("cannot generate new private key", gen.err)]
        ELSE IF c.importPkOpts # NilOpts
        THEN LET imp == importPrivateKey(c.importPkOpts) IN
             IF imp.err # NilErr
             THEN [key |-> NilKey, opts |-> NilOpts,
                   err |-> Wrap("cannot import private key", imp.err)]
             ELSE [key |-> imp.key, opts |-> c.importPkOpts, err |-> NilErr]
        ELSE [key |-> gen.key, opts |-> c.newPkOpts, err |-> NilErr]

\* Build, after the key is resolved: set kid and use, check the type, derive the
\* public key
FinishKey(key, opts) ==
    LET withId == Set(key, "kid", opts.keyId) IN
    IF withId.err # NilErr
    THEN [key |-> NilKey,
          err |-> Wrap("cannot add an id property to the private key", withId.err)]
    ELSE LET withUse == Set(withId.key, "use", KeyUsageAsSignature) IN
    IF withUse.err # NilErr
    THEN [key |-> NilKey,
          err |-> Wrap("cannot add an id property to the private key", withUse.err)]
    ELSE IF ~IsRSAPrivateKey(withUse.key)
    THEN [key |-> NilKey, err |-> <<"expected jwk.SymmetricKey, got">>]
    ELSE IF PublicKey(withUse.key).err # NilErr
    THEN [key |-> NilKey,
          err |-> Wrap("failed to create public key", PublicKey(withUse.key).err)]
    ELSE [key |-> withUse.key, err |-> NilErr]

\* mutant: the check `key == nil` is missing, so key.Set runs on a nil key
BuildOutcomeNoNilCheck(c, rnd) ==
    IF BothSelected(c)
    THEN [key |-> NilKey, err |-> <<"cannot import and generate a new private key">>]
    ELSE LET src == ResolveKey(c, rnd) IN
         IF src.err # NilErr THEN [key |-> NilKey, err |-> src.err]
         ELSE IF src.key = NilKey
         THEN [key |-> NilKey,
               err |-> <<"panic: invalid memory address or nil pointer dereference">>]
         ELSE FinishKey(src.key, src.opts)

\* Build up to its last two statements: the key to store, or the error returned
BuildOutcome(c, rnd) ==
    IF BothSelected(c)
    THEN [key |-> NilKey, err |-> <<"cannot import and generate a new private key">>]
    ELSE LET src == ResolveKey(c, rnd) IN
         IF src.err # NilErr THEN [key |-> NilKey, err |-> src.err]
         ELSE IF src.key = NilKey
         THEN [key |-> NilKey, err |-> <<"generate or import a private key">>]
         ELSE FinishKey(src.key, src.opts)

\* ------------------------------------------------------------------ state

Init ==
    /\ cfg = NewConfigBuilder
    /\ last = [op |-> "NewConfigBuilder", config |-> Nil, err |-> NilErr]
    /\ handlers = {}
    /\ reqs = EmptyBag

\* what `last` holds after a With... call: the facet, no (config, err)
Facet(op) == [op |-> op, config |-> Nil, err |-> NilErr]

\* ConfigNewKeyBuilder.WithKeyLength
WithKeyLength(bits) ==
    /\ cfg' = [initiateNewOptsIfNil(cfg) EXCEPT !.newPkOpts.bits = bits]
    /\ last' = Facet("WithKeyLength")
    /\ UNCHANGED <<handlers, reqs>>

\* ConfigNewKeyBuilder.WithKeyId
NewWithKeyId(keyId) ==
    /\ cfg' = [initiateNewOptsIfNil(cfg) EXCEPT !.newPkOpts.keyId = keyId]
    /\ last' = Facet("WithKeyId")
    /\ UNCHANGED <<handlers, reqs>>

\* ConfigImportKeyBuilder.WithPath
WithPath(privateKeyPemPath) ==
    /\ cfg' = [initiateImportOptsIfNil(cfg) EXCEPT
                  !.importPkOpts.privateKeyPemPath = privateKeyPemPath]
    /\ last' = Facet("WithPath")
    /\ UNCHANGED <<handlers, reqs>>

\* ConfigImportKeyBuilder.WithKeyId
ImportWithKeyId(keyId) ==
    /\ cfg' = [initiateImportOptsIfNil(cfg) EXCEPT !.importPkOpts.keyId = keyId]
    /\ last' = Facet("WithKeyId")
    /\ UNCHANGED <<handlers, reqs>>

\* Build, its last two statements: b.config.key = &key; return b.config, nil
StoreKey(c, key) == [c EXCEPT !.key = key]

\* ConfigBuilder.Build: on success the key is stored in the builder's Config and
\* the pointer to that same Config is returned ("cfg"); on failure nil and the error
Build ==
    /\ \E rnd \in {0, 1} :
         LET out == BuildOutcome(cfg, rnd) IN
         IF out.err # NilErr
         THEN /\ last' = [op |-> "Build", config |-> Nil, err |-> out.err]
              /\ UNCHANGED cfg
         ELSE /\ cfg' = StoreKey(cfg, out.key)
              /\ last' = [op |-> "Build", config |-> "cfg", err |-> NilErr]
    /\ UNCHANGED <<handlers, reqs>>

\* ------------------------------------------------------------ the handler

\* key.Get(name) on an RSA key: the raw bytes of "e" or "n"
Get(key, name) ==
    IF name = "e" THEN [val |-> [type |-> "[]byte", bytes |-> key.e], ok |-> TRUE]
    ELSE IF name = "n" THEN [val |-> [type |-> "[]byte", bytes |-> key.n], ok |-> TRUE]
    ELSE [val |-> NilValue, ok |-> FALSE]

\* key.KeyID(): "" when no kid was set
KeyID(key) == IF key.kid = Nil THEN "" ELSE key.kid

\* key.KeyUsage(): "" when no use was set
KeyUsage(key) == IF key.use = Nil THEN "" ELSE key.use

\* jwa.RS256.String()
RS256 == "RS256"

\* mutant: the kid and use fields are filled from each other's getter
JkwsResponseSwapped(key, pubKey, E, N) ==
    [kty |-> KeyType(pubKey),
     alg |-> RS256,
     e   |-> EncodeToString(E.bytes),
     n   |-> EncodeToString(N.bytes),
     use |-> KeyID(key),
     kid |-> KeyUsage(key)]

\* the JkwsResponse literal of the handler
JkwsResponse(key, pubKey, E, N) ==
    [kty |-> KeyType(pubKey),
     alg |-> RS256,
     e   |-> EncodeToString(E.bytes),
     n   |-> EncodeToString(N.bytes),
     use |-> KeyUsage(key),
     kid |-> KeyID(key)]

\* c.JSON(200, gin.H{"keys": []JkwsResponse{res}})
JSON(code, res) == [status |-> code, body |-> [keys |-> <<res>>]]

\* Jkws(*config) in main, which has returned if Build failed: the closure
\* captures a copy of the Config that Build returned
Jkws ==
    /\ last.op = "Build" /\ last.config # Nil
    /\ Cardinality(handlers) < MaxHandlers
    /\ handlers' = handlers \cup {[key |-> cfg.key]}
    /\ UNCHANGED <<cfg, last, reqs>>

\* Jkws(Config{}): Config is an exported type, its zero value has a nil key
JkwsZeroConfig ==
    /\ Cardinality(handlers) < MaxHandlers
    /\ handlers' = handlers \cup {[key |-> NilKey]}
    /\ UNCHANGED <<cfg, last, reqs>>

\* the handler, first half: key := *config.key, then key.PublicKey(),
\* key.Get("e"), key.Get("n"), every error dropped.  A nil config.key panics.
ReadKey(config) ==
    IF config.key = NilKey
    THEN [config |-> config, pc |-> "panic", key |-> NilKey, pubKey |-> NilKey,
          E |-> NilValue, N |-> NilValue, resp |-> NoResponse]
    ELSE [config |-> config, pc |-> "respond", key |-> config.key,
          pubKey |-> PublicKey(config.key).key,
          E |-> Get(config.key, "e").val, N |-> Get(config.key, "n").val,
          resp |-> NoResponse]

\* mutant: the closure holds the *Config and reads the key through it again
RespondThroughPointer(r) ==
    [r EXCEPT !.pc = "done",
              !.resp = JSON(200, JkwsResponse(cfg.key, PublicKey(cfg.key).key,
                                 Get(cfg.key, "e").val, Get(cfg.key, "n").val))]

\* the handler, second half: the JkwsResponse literal and c.JSON(200, ...).  A
\* nil pubKey, or an E or N that is no []byte, panics.
Respond(r) ==
    IF r.pubKey = NilKey \/ r.E.type # "[]byte" \/ r.N.type # "[]byte"
    THEN [r EXCEPT !.pc = "panic"]
    ELSE [r EXCEPT !.pc = "done",
                   !.resp = JSON(200, JkwsResponse(r.key, r.pubKey, r.E, r.N))]

\* a request enters the handler h and runs its first half
HandlerRead(h) ==
    /\ BagCardinality(reqs) < MaxRequests
    /\ reqs' = reqs (+) SetToBag({ReadKey(h)})
    /\ UNCHANGED <<cfg, last, handlers>>

\* request r runs the second half of the handler
HandlerRespond(r) ==
    /\ r.pc = "respond"
    /\ reqs' = (reqs (-) SetToBag({r})) (+) SetToBag({Respond(r)})
    /\ UNCHANGED <<cfg, last, handlers>>

Next ==
    \/ \E bits \in KeyLengths : WithKeyLength(bits)
    \/ \E keyId \in KeyIds : NewWithKeyId(keyId)
    \/ \E path \in Paths : WithPath(path)
    \/ \E keyId \in KeyIds : ImportWithKeyId(keyId)
    \/ Build
    \/ Jkws
    \/ JkwsZeroConfig
    \/ \E h \in handlers : HandlerRead(h)
    \/ \E r \in BagToSet(reqs) : HandlerRespond(r)

Spec == Init /\ [][Next]_vars

\* ----------------------------------------------------------- properties

\* base64.RawURLEncoding.DecodeString, as [bytes, ok]: ok is FALSE on a character
\* outside the alphabet ('=' included) and on an impossible length
Sextet(c) ==
    IF \E i \in 1..64 : Alphabet[i] = c
    THEN (CHOOSE i \in 1..64 : Alphabet[i] = c) - 1
    ELSE -1

RECURSIVE DecodeString(_)
DecodeString(s) ==
    IF Len(s) = 0 THEN [bytes |-> <<>>, ok |-> TRUE]
    ELSE IF Len(s) = 1 \/ \E i \in 1..Len(s) : Sextet(s[i]) = -1
    THEN [bytes |-> <<>>, ok |-> FALSE]
    ELSE IF Len(s) = 2
    THEN [bytes |-> << Sextet(s[1]) * 4 + Sextet(s[2]) \div 16 >>, ok |-> TRUE]
    ELSE IF Len(s) = 3
    THEN [bytes |-> << Sextet(s[1]) * 4 + Sextet(s[2]) \div 16,
                       (Sextet(s[2]) % 16) * 16 + Sextet(s[3]) \div 4 >>,
          ok |-> TRUE]
    ELSE LET rest == DecodeString(SubSeq(s, 5, Len(s))) IN
         [bytes |-> << Sextet(s[1]) * 4 + Sextet(s[2]) \div 16,
                       (Sextet(s[2]) % 16) * 16 + Sextet(s[3]) \div 4,
                       (Sextet(s[3]) % 4) * 64 + Sextet(s[4]) >> \o rest.bytes,
          ok |-> rest.ok]

Requests == BagToSet(reqs)

\* the last builder call was Build and it returned (config, nil)
BuildSucceeded == last.op = "Build" /\ last.config # Nil

\* the last builder call was Build and it returned (nil, err)
BuildFailed == last.op = "Build" /\ last.config = Nil

\* the options of the facet Build takes the key id from
SelectedOpts == IF cfg.importPkOpts # NilOpts THEN cfg.importPkOpts ELSE cfg.newPkOpts

\* C1: a handler made from the Config of a successful Build answers every request
\* with status 200 and a body whose "keys" array holds exactly one entry, with
\* kty "RSA", alg "RS256", use "sig" and, as kid, the key id Build attached to the
\* key, which is the key id set on the selected facet when Build ran.
C1_SingleEntryWithBuiltKid ==
    /\ BuildSucceeded => cfg.key.kid = SelectedOpts.keyId
    /\ \A r \in Requests :
         r.config.key # NilKey =>
            /\ r.pc # "panic"
            /\ r.pc = "done" =>
                 /\ r.resp.status = 200
                 /\ Len(r.resp.body.keys) = 1
                 /\ r.resp.body.keys[1].kty = "RSA"
                 /\ r.resp.body.keys[1].alg = "RS256"
                 /\ r.resp.body.keys[1].use = "sig"
                 /\ r.resp.body.keys[1].kid = r.config.key.kid

C1_Witness ==
    \E r \in Requests :
        /\ r.pc = "done"
        /\ r.resp.status = 200
        /\ r.resp.body.keys[1].kid = "my-id"

\* C2: with options set on both facets, Build returns no Config and the error
\* "cannot import and generate a new private key".
C2_BothSourcesRejected ==
    (last.op = "Build" /\ cfg.newPkOpts # NilOpts /\ cfg.importPkOpts # NilOpts) =>
        /\ last.config = Nil
        /\ last.err = <<"cannot import and generate a new private key">>

C2_Witness ==
    /\ BuildFailed
    /\ cfg.newPkOpts # NilOpts /\ cfg.newPkOpts.bits = 16
    /\ cfg.importPkOpts # NilOpts /\ cfg.importPkOpts.privateKeyPemPath = "private.pem"
    /\ last.err = <<"cannot import and generate a new private key">>

\* C3: with no option set on either facet, Build returns no Config and the error
\* "generate or import a private key".
C3_NoSourceRejected ==
    (last.op = "Build" /\ cfg.newPkOpts = NilOpts /\ cfg.importPkOpts = NilOpts) =>
        /\ last.config = Nil
        /\ last.err = <<"generate or import a private key">>

C3_Witness ==
    /\ BuildFailed
    /\ cfg.newPkOpts = NilOpts /\ cfg.importPkOpts = NilOpts
    /\ last.err = <<"generate or import a private key">>

\* C4: Build succeeds only with a non-empty key id on the selected facet, so the
\* key of a returned Config has a non-empty kid.
C4_KeyIdRequired ==
    BuildSucceeded => (SelectedOpts.keyId # "" /\ cfg.key.kid \notin {"", Nil})

\* C5: a request in which the key, its public key, exponent or modulus cannot be
\* read is answered with a 5xx status, and the handler does not panic.
C5_NoPanic ==
    \A r \in Requests :
        /\ r.pc # "panic"
        /\ r.config.key = NilKey => r.resp.status \in 500..599

\* C6: once Build has succeeded, no later builder call (WithKeyId, WithKeyLength,
\* WithPath, Build) changes the key, kid or use of the Config it returned.
C6_ReturnedKeyFrozen ==
    [][cfg.key # NilKey => cfg'.key = cfg.key]_vars

\* C7: the requests served from one Config all succeed with the same output, in
\* any interleaving, and no step of a request writes the builder's Config, its
\* key or a handler's copy.
C7_RequestsAgreeState ==
    \A r1, r2 \in Requests :
        /\ r1.config.key # NilKey => r1.pc # "panic"
        /\ (r1.config = r2.config /\ r1.config.key # NilKey
              /\ r1.pc = "done" /\ r2.pc = "done") =>
                 r1.resp = r2.resp /\ r1.resp.status = 200

C7_RequestsAgree ==
    /\ []C7_RequestsAgreeState
    /\ [][reqs' # reqs => UNCHANGED <<cfg, handlers>>]_vars

C7_Witness ==
    \E r \in Requests :
        /\ r.pc = "done"
        /\ CopiesIn(r, reqs) >= 2
        /\ cfg.key # r.config.key

\* C8: with only the import facet set, Build returns no Config and, in this
\* order: a read error when the file cannot be read, a parse error when its
\* content is no PEM key, a type error when the key is no RSA private key.
C8_ImportErrors ==
    (last.op = "Build" /\ cfg.newPkOpts = NilOpts /\ cfg.importPkOpts # NilOpts) =>
        LET path == cfg.importPkOpts.privateKeyPemPath IN
        IF path \notin DOMAIN FileSystem
        THEN /\ last.config = Nil
             /\ SubSeq(last.err, 1, 2) =
                    <<"cannot import private key", "cannot read private key">>
        ELSE IF FileSystem[path].pem = Nil
        THEN /\ last.config = Nil
             /\ SubSeq(last.err, 1, 2) =
                    <<"cannot import private key", "cannot parse private key">>
        ELSE IF FileSystem[path].pem # "RSA PRIVATE KEY"
        THEN /\ last.config = Nil
             /\ last.err = <<"expected jwk.SymmetricKey, got">>
        ELSE TRUE

C8_Witness ==
    /\ BuildFailed
    /\ cfg.newPkOpts = NilOpts /\ cfg.importPkOpts # NilOpts
    /\ cfg.importPkOpts.privateKeyPemPath = "public.pem"
    /\ last.err = <<"expected jwk.SymmetricKey, got">>

\* C9: the "e" and "n" of an entry are the unpadded base64url text of the key's
\* big-endian exponent and modulus bytes: decoding gives the bytes back, no '='
\* appears, and the exponent 65537 reads "AQAB".
C9_Base64Url ==
    \A r \in Requests :
        r.pc = "done" =>
            LET entry == r.resp.body.keys[1]
                key == r.config.key
            IN  /\ DecodeString(entry.e) = [bytes |-> key.e, ok |-> TRUE]
                /\ DecodeString(entry.n) = [bytes |-> key.n, ok |-> TRUE]
                /\ \A i \in 1..Len(entry.e) : entry.e[i] # "="
                /\ \A i \in 1..Len(entry.n) : entry.n[i] # "="
                /\ FromBigEndian(key.e) = 65537 => entry.e = <<"A", "Q", "A", "B">>
                /\ key.e = <<1, 0, 1>> <=> FromBigEndian(key.e) = 65537

C9_Witness ==
    \E r \in Requests :
        /\ r.pc = "done"
        /\ r.resp.body.keys[1].e = <<"A", "Q", "A", "B">>
        /\ Len(r.config.key.n) = 2
        /\ Len(r.resp.body.keys[1].n) = 3

\* C10: Build returns a Config exactly when it returns no error; the key of a
\* returned Config is an RSA private key with use "sig"; and only a Build that
\* succeeds changes the key stored in the builder's Config.
C10_State ==
    /\ last.op = "Build" => (last.config # Nil <=> last.err = NilErr)
    /\ BuildSucceeded => cfg.key # NilKey
    /\ cfg.key # NilKey => (cfg.key.kind = "RSAPrivateKey" /\ cfg.key.use = "sig")
    /\ \A h \in handlers :
         h.key # NilKey => (h.key.kind = "RSAPrivateKey" /\ h.key.use = "sig")

C10_BuildAllOrNothing ==
    /\ []C10_State
    /\ [][cfg'.key # cfg.key => (last'.op = "Build" /\ last'.err = NilErr)]_vars
    /\ [][(last'.op = "Build" /\ last'.err # NilErr) => cfg' = cfg]_vars

C10_Witness ==
    /\ BuildFailed
    /\ cfg.key # NilKey

====
